---------------------------- MODULE Spec2Model ----------------------------
(***************************************************************************)
(* A model of src/src/App.tsx: the poster compositor                       *)
(* (createHighQualityPoster) and the React component App that owns the     *)
(* working set (images, currentImageIndex, croppedAreaPixels, aspectRatio, *)
(* template, isProcessing) and its event handlers.                         *)
(*                                                                         *)
(* The browser runs one task at a time.  Every action below is one task:   *)
(* a DOM event handler, a FileReader or Image callback, or a timer,        *)
(* together with the promise continuations (microtasks) that it makes      *)
(* runnable, since those run before any other task starts.                 *)
(***************************************************************************)
EXTENDS Integers, Sequences, FiniteSets, TLC

(***************************************************************************)
(* Bounds of the model.                                                    *)
(***************************************************************************)
\* files read over a run of the working set (uploads and captures together)
MaxIds == 3
\* files read over a run of the whole application
MaxAppIds == 2
\* files of one upload event (0: a change event with an empty FileList)
MaxFiles == 2
\* handleUpload events whose reads are in flight at the same time
MaxUploads == 1
\* handleCameraCapture events whose read is in flight at the same time
MaxCaptures == 1
\* handleCrop calls suspended on getCroppedImg at the same time
MaxCrops == 1
\* export handlers (handleDownloadSingle, handleDownloadAll) running at the same time
MaxExports == 1
\* createHighQualityPoster calls whose images are alive at the same time
MaxCalls == 2

(***************************************************************************)
(* Values.                                                                 *)
(***************************************************************************)
\* null of "string | null" and of croppedAreaPixels
Null == [null |-> TRUE]

\* the two values aspectRatio takes: 4 / 3 and 3 / 4
Landscape == <<4, 3>>
Portrait == <<3, 4>>
Ratios == {Landscape, Portrait}

\* the two bundled template images
template4 == [asset |-> "template4.png"]
template3 == [asset |-> "template3.png"]

\* the data URL a FileReader hands back for the n-th file that is read
DataUrl(n) == [file |-> n]

\* rectangles the cropping widget reports (pixel space of the shown image)
Rects == { [x |-> 0, y |-> 0, width |-> 4, height |-> 3],
           [x |-> 1, y |-> 1, width |-> 3, height |-> 4] }

\* the rectangle it reports in the specification of the whole application
AppRects == { [x |-> 0, y |-> 0, width |-> 4, height |-> 3] }

(***************************************************************************)
(* getCroppedImg (./utils/cropImage.js).  Only its declaration is part of  *)
(* the sources; the result is modelled as the spec describes it: a new     *)
(* handle derived from exactly one (source, rectangle) pair, and a         *)
(* rejection for a null rectangle, for a rectangle outside the bounds of   *)
(* the source, or for an undecodable source.                               *)
(***************************************************************************)
CroppedImg(imageSrc, pixelCrop) == [croppedFrom |-> imageSrc, rect |-> pixelCrop]

\* the pixel dimensions of a source image
SourceSize(imageSrc) == [width |-> 4, height |-> 5]

\* the bounds of a CropRectangle within its source
ValidRect(pixelCrop, size) ==
    /\ 0 <= pixelCrop.x
    /\ 0 <= pixelCrop.y
    /\ pixelCrop.width > 0
    /\ pixelCrop.height > 0
    /\ pixelCrop.x + pixelCrop.width <= size.width
    /\ pixelCrop.y + pixelCrop.height <= size.height

\* the outcome of a call: the promise's settlement, with the error it is
\* rejected with or the handle it resolves with; decodes says whether the
\* source decodes as a raster image
getCroppedImg(imageSrc, pixelCrop, decodes) ==
    IF pixelCrop = Null
    THEN [outcome |-> "rejected", error |-> "InvalidRectangleError", value |-> Null]
    ELSE IF ~ValidRect(pixelCrop, SourceSize(imageSrc))
    THEN [outcome |-> "rejected", error |-> "InvalidRectangleError", value |-> Null]
    ELSE IF ~decodes
    THEN [outcome |-> "rejected", error |-> "DecodeError", value |-> Null]
    ELSE [outcome |-> "resolved", error |-> "none", value |-> CroppedImg(imageSrc, pixelCrop)]

getCroppedImgCanResolve(imageSrc, pixelCrop) ==
    getCroppedImg(imageSrc, pixelCrop, TRUE).outcome = "resolved"

(***************************************************************************)
(* createHighQualityPoster: the state of one call.                         *)
(***************************************************************************)
\* CanvasSize with the two resolutions exchanged
CanvasSizeSwapped(ratio) ==
    IF ratio = Portrait
    THEN [width |-> 1600, height |-> 1200]
    ELSE [width |-> 1200, height |-> 1600]

\* posterCanvas.width / posterCanvas.height, lines 31-37
CanvasSize(ratio) ==
    IF ratio = Portrait
    THEN [width |-> 1200, height |-> 1600]
    ELSE [width |-> 1600, height |-> 1200]

totalImages == 2

\* the call up to its return: canvas sized, both images loading, promise pending
createHighQualityPoster(croppedImageSrc, templateSrc, ratio, ctxOk) ==
    [ croppedImageSrc |-> croppedImageSrc,
      templateSrc     |-> templateSrc,
      aspectRatio     |-> ratio,
      ctx             |-> ctxOk,
      canvas          |-> CanvasSize(ratio),
      imagesLoaded    |-> 0,
      croppedImage    |-> "loading",
      templateImage   |-> "loading",
      events          |-> << >>,
      draws           |-> << >>,
      promise         |-> "pending",
      value           |-> Null ]

\* a call slot that holds no call
NoCall == [promise |-> "none", croppedImage |-> "none", templateImage |-> "none"]

\* an image of the call can still fire its load or error event
Loading(c) == c.croppedImage = "loading" \/ c.templateImage = "loading"

\* the src attribute of one of the call's two Image objects
ImageSrc(c, img) == IF img = "croppedImage" THEN c.croppedImageSrc ELSE c.templateSrc

\* ctx.drawImage(img, 0, 0, width, height): the call is recorded with the
\* decode state of the image; an image that has not finished decoding
\* paints nothing.
drawImage(c, img) ==
    [c EXCEPT !.draws = Append(@, [image    |-> img,
                                    src      |-> ImageSrc(c, img),
                                    complete |-> c[img] = "loaded"])]

\* posterCanvas.toDataURL("image/png", 1.0): the canvas size and the layers
\* painted on it, bottom first
Painted(d) == d.complete

Layers(draws) ==
    LET p == SelectSeq(draws, Painted)
    IN  [i \in 1..Len(p) |-> p[i].src]

toDataURL(c) == [width  |-> c.canvas.width,
                 height |-> c.canvas.height,
                 layers |-> Layers(c.draws)]

\* resolve / reject settle a pending promise and are no-ops afterwards
resolve(c, v) ==
    IF c.promise = "pending" THEN [c EXCEPT !.promise = "resolved", !.value = v] ELSE c

reject(c) ==
    IF c.promise = "pending" THEN [c EXCEPT !.promise = "rejected"] ELSE c

\* onImageLoad that composes as soon as one image has loaded
onImageLoadFirst(c) ==
    LET c1 == [c EXCEPT !.imagesLoaded = @ + 1]
    IN  IF c1.imagesLoaded = 1
        THEN IF ~c1.ctx
             THEN reject(c1)
             ELSE LET c2 == drawImage(c1, "croppedImage")
                      c3 == drawImage(c2, "templateImage")
                  IN  resolve(c3, toDataURL(c3))
        ELSE c1

\* onImageLoad that draws the template first
onImageLoadTemplateFirst(c) ==
    LET c1 == [c EXCEPT !.imagesLoaded = @ + 1]
    IN  IF c1.imagesLoaded = totalImages
        THEN IF ~c1.ctx
             THEN reject(c1)
             ELSE LET c2 == drawImage(c1, "templateImage")
                      c3 == drawImage(c2, "croppedImage")
                  IN  resolve(c3, toDataURL(c3))
        ELSE c1

\* onImageLoad that draws the two images in the order they loaded
onImageLoadInLoadOrder(c) ==
    LET c1 == [c EXCEPT !.imagesLoaded = @ + 1]
    IN  IF c1.imagesLoaded = totalImages
        THEN IF ~c1.ctx
             THEN reject(c1)
             ELSE LET c2 == drawImage(c1, c1.events[1].image)
                      c3 == drawImage(c2, c1.events[2].image)
                  IN  resolve(c3, toDataURL(c3))
        ELSE c1

\* onImageLoad, lines 42-69
onImageLoad(c) ==
    LET c1 == [c EXCEPT !.imagesLoaded = @ + 1]
    IN  IF c1.imagesLoaded = totalImages
        THEN IF ~c1.ctx
             THEN reject(c1)
             ELSE LET c2 == drawImage(c1, "croppedImage")
                      c3 == drawImage(c2, "templateImage")
                  IN  resolve(c3, toDataURL(c3))
        ELSE c1

\* the image finishes decoding or fails to: its state, and the event in the
\* order of arrival
Fire(c, img, event) ==
    [c EXCEPT ![img] = IF event = "load" THEN "loaded" ELSE "error",
              !.events = Append(@, [image |-> img, event |-> event])]

\* an error event that is counted as a load: img.onerror = onImageLoad
ImageFailedCounted(c, img) == onImageLoad(Fire(c, img, "error"))

\* the load event of one of the two images: img.onload = onImageLoad
\* (lines 71, 75)
ImageLoaded(c, img) == onImageLoad(Fire(c, img, "load"))

\* the error event of one of the two images: img.onerror = reject
\* (lines 72, 76)
ImageFailed(c, img) == reject(Fire(c, img, "error"))

(***************************************************************************)
(* The component App: its state (lines 82-89) and the calls in flight.     *)
(***************************************************************************)
VARIABLES
    images,             \* useState<ImageData[]>([])
    currentImageIndex,  \* useState<number>(-1)
    croppedAreaPixels,  \* useState<any>(null)
    aspectRatio,        \* useState<number>(4 / 3)
    template,           \* useState<string>(template4)
    isProcessing,       \* useState(false)
    nextFile,           \* the number of the next file a FileReader is given
    uploads,            \* handleUpload events whose FileReaders are reading
    captures,           \* handleCameraCapture events whose FileReader is reading
    crops,              \* handleCrop calls: suspended on getCroppedImg, or ended
    exports,            \* handleDownloadSingle and handleDownloadAll calls
    posters,            \* createHighQualityPoster calls
    reportedFor         \* history: the id of the image that was shown when the
                        \* cropper last called onCropComplete (0: never called)

vars == << images, currentImageIndex, croppedAreaPixels, aspectRatio, template,
           isProcessing, nextFile, uploads, captures, crops, exports,
           posters, reportedFor >>

UploadIds == 1..MaxUploads
CaptureIds == 1..MaxCaptures
CropIds == 1..MaxCrops
ExportIds == 1..MaxExports
CallIds == 1..MaxCalls

\* the ImageData built in reader.onload (lines 105-112 and 133-140); the id
\* is unique to the read (Date.now() and the file's index)
NewImage(n) ==
    [ id                |-> n,
      src               |-> DataUrl(n),
      croppedImage      |-> Null,
      crop              |-> [x |-> 0, y |-> 0],
      zoom              |-> 1,
      croppedAreaPixels |-> Null ]

IdleUpload == [state |-> "idle", total |-> 0, pending |-> {}, newImages |-> << >>]
IdleCapture == [state |-> "idle", file |-> 0, length |-> 0]
IdleCrop == [state |-> "idle", index |-> -1, src |-> Null, rect |-> Null, result |-> Null]
IdleExport == [handler |-> "none", state |-> "idle", imageId |-> 0,
               completedImages |-> << >>, template |-> template4,
               aspectRatio |-> Landscape, i |-> 0, call |-> 0, downloads |-> << >>]

Init ==
    /\ images = << >>
    /\ currentImageIndex = -1
    /\ croppedAreaPixels = Null
    /\ aspectRatio = Landscape
    /\ template = template4
    /\ isProcessing = FALSE
    /\ nextFile = 1
    /\ uploads = [u \in UploadIds |-> IdleUpload]
    /\ captures = [k \in CaptureIds |-> IdleCapture]
    /\ crops = [k \in CropIds |-> IdleCrop]
    /\ exports = [e \in ExportIds |-> IdleExport]
    /\ posters = [c \in CallIds |-> NoCall]
    /\ reportedFor = 0

\* images[index] as JavaScript reads it: undefined outside the array
InRange(index, imgs) == index >= 0 /\ index < Len(imgs)
At(imgs, index) == imgs[index + 1]

\* const currentImage = currentImageIndex >= 0 ? images[currentImageIndex] : null
\* (lines 222-223), as the truthiness test the JSX makes of it
HasCurrentImage == currentImageIndex >= 0 /\ InRange(currentImageIndex, images)
currentImage == At(images, currentImageIndex)

\* a slot whose handler is not running: never used, or ended
Ended(r) == r.state \in {"idle", "committed", "caught", "done", "unhandled"}

\* the lowest slot of a family of handler calls that is free for a new call
FirstFree(slots, ids) ==
    {k \in ids : Ended(slots[k]) /\ \A j \in ids : Ended(slots[j]) => k <= j}

\* the lowest slot that holds no createHighQualityPoster call
FreeCall == {c \in CallIds : posters[c] = NoCall /\ \A d \in CallIds : posters[d] = NoCall => c <= d}

(***************************************************************************)
(* Aspect mode buttons (lines 241-258) and the image grid (lines 322-331). *)
(***************************************************************************)
SelectLandscape ==
    /\ aspectRatio' = Landscape
    /\ template' = template4
    /\ UNCHANGED << images, currentImageIndex, croppedAreaPixels, isProcessing,
                    nextFile, uploads, captures, crops, exports, posters, reportedFor >>

\* a Portrait button that leaves the template as it is
SelectPortraitKeepsTemplate ==
    /\ aspectRatio' = Portrait
    /\ UNCHANGED << images, currentImageIndex, croppedAreaPixels, template, isProcessing,
                    nextFile, uploads, captures, crops, exports, posters, reportedFor >>

SelectPortrait ==
    /\ aspectRatio' = Portrait
    /\ template' = template3
    /\ UNCHANGED << images, currentImageIndex, croppedAreaPixels, isProcessing,
                    nextFile, uploads, captures, crops, exports, posters, reportedFor >>

\* a click on a grid item that also puts the item left behind back into
\* editing
SelectImageResets(index) ==
    /\ InRange(index, images)
    /\ currentImageIndex' = index
    /\ images' = [n \in 1..Len(images) |->
                    IF n - 1 = currentImageIndex /\ n - 1 # index
                    THEN [images[n] EXCEPT !.croppedImage = Null]
                    ELSE images[n]]
    /\ UNCHANGED << croppedAreaPixels, aspectRatio, template, isProcessing,
                    nextFile, uploads, captures, crops, exports, posters, reportedFor >>

\* onClick={() => setCurrentImageIndex(index)}
SelectImage(index) ==
    /\ InRange(index, images)
    /\ currentImageIndex' = index
    /\ UNCHANGED << images, croppedAreaPixels, aspectRatio, template, isProcessing,
                    nextFile, uploads, captures, crops, exports, posters, reportedFor >>

\* onCropComplete (lines 91-93); the Cropper is mounted only while the
\* current image exists and is not cropped (lines 358-370)
onCropComplete(area) ==
    /\ HasCurrentImage
    /\ currentImage.croppedImage = Null
    /\ croppedAreaPixels' = area
    /\ reportedFor' = currentImage.id
    /\ UNCHANGED << images, currentImageIndex, aspectRatio, template, isProcessing,
                    nextFile, uploads, captures, crops, exports, posters >>

(***************************************************************************)
(* handleUpload (lines 95-125).                                            *)
(***************************************************************************)
handleUpload(u, n) ==
    /\ Ended(uploads[u])
    /\ isProcessing' = TRUE
    /\ nextFile' = nextFile + n
    /\ uploads' = [uploads EXCEPT ![u] =
                     IF n = 0 THEN IdleUpload
                     ELSE [state |-> "reading", total |-> n,
                           pending |-> nextFile..(nextFile + n - 1),
                           newImages |-> << >>]]
    /\ UNCHANGED << images, currentImageIndex, croppedAreaPixels, aspectRatio,
                    template, captures, crops, exports, posters, reportedFor >>

\* reader.onload of one file of the upload (lines 103-121)
UploadReaderLoad(u, f) ==
    /\ uploads[u].state = "reading"
    /\ f \in uploads[u].pending
    /\ LET newImages == Append(uploads[u].newImages, NewImage(f))
           pending == uploads[u].pending \ {f}
       IN  /\ IF Len(newImages) = uploads[u].total
              THEN /\ images' = images \o newImages
                   /\ currentImageIndex' = (IF Len(newImages) > 0 THEN 0 ELSE -1)
                   /\ isProcessing' = FALSE
              ELSE UNCHANGED << images, currentImageIndex, isProcessing >>
           /\ uploads' = [uploads EXCEPT ![u] =
                            IF pending = {} THEN IdleUpload
                            ELSE [@ EXCEPT !.pending = pending, !.newImages = newImages]]
    /\ UNCHANGED << croppedAreaPixels, aspectRatio, template, nextFile,
                    captures, crops, exports, posters, reportedFor >>

\* a read that fails: the reader has no onerror, nothing runs
UploadReaderError(u, f) ==
    /\ uploads[u].state = "reading"
    /\ f \in uploads[u].pending
    /\ uploads' = [uploads EXCEPT ![u] =
                     IF @.pending = {f} THEN IdleUpload
                     ELSE [@ EXCEPT !.pending = @ \ {f}]]
    /\ UNCHANGED << images, currentImageIndex, croppedAreaPixels, aspectRatio,
                    template, isProcessing, nextFile, captures, crops, exports, posters, reportedFor >>

(***************************************************************************)
(* handleCameraCapture (lines 127-147).                                    *)
(***************************************************************************)
handleCameraCapture(k) ==
    /\ Ended(captures[k])
    /\ nextFile' = nextFile + 1
    /\ captures' = [captures EXCEPT ![k] =
                      [state |-> "reading", file |-> nextFile, length |-> Len(images)]]
    /\ UNCHANGED << images, currentImageIndex, croppedAreaPixels, aspectRatio,
                    template, isProcessing, uploads, crops, exports, posters, reportedFor >>

\* reader.onload (lines 131-144): images.length is the length the handler saw
CaptureReaderLoad(k) ==
    /\ captures[k].state = "reading"
    /\ images' = Append(images, NewImage(captures[k].file))
    /\ currentImageIndex' = captures[k].length
    /\ captures' = [captures EXCEPT ![k] = IdleCapture]
    /\ UNCHANGED << croppedAreaPixels, aspectRatio, template, isProcessing,
                    nextFile, uploads, crops, exports, posters, reportedFor >>

CaptureReaderError(k) ==
    /\ captures[k].state = "reading"
    /\ captures' = [captures EXCEPT ![k] = IdleCapture]
    /\ UNCHANGED << images, currentImageIndex, croppedAreaPixels, aspectRatio,
                    template, isProcessing, nextFile, uploads, crops, exports, posters, reportedFor >>

(***************************************************************************)
(* removeImage (lines 212-220).                                            *)
(***************************************************************************)
Max(a, b) == IF a >= b THEN a ELSE b

WithoutId(imgs, imageId) ==
    LET Keep(img) == img.id # imageId
    IN  SelectSeq(imgs, Keep)

removeImage(imageId) ==
    /\ \E n \in 1..Len(images) : images[n].id = imageId
    /\ LET filtered == WithoutId(images, imageId)
       IN  /\ images' = filtered
           /\ currentImageIndex' =
                 IF currentImageIndex >= Len(filtered)
                 THEN Max(0, Len(filtered) - 1)
                 ELSE currentImageIndex
    /\ UNCHANGED << croppedAreaPixels, aspectRatio, template, isProcessing,
                    nextFile, uploads, captures, crops, exports, posters, reportedFor >>

(***************************************************************************)
(* handleCrop (lines 149-169).  The button is rendered only while the      *)
(* current image exists and is not cropped (lines 372-379).                *)
(***************************************************************************)
handleCrop(k) ==
    /\ Ended(crops[k])
    /\ HasCurrentImage
    /\ currentImage.croppedImage = Null
    /\ ~(currentImageIndex = -1 \/ ~InRange(currentImageIndex, images))
    /\ crops' = [crops EXCEPT ![k] =
                   [state |-> "awaiting", index |-> currentImageIndex,
                    src |-> currentImage.src, rect |-> croppedAreaPixels,
                    result |-> Null]]
    /\ UNCHANGED << images, currentImageIndex, croppedAreaPixels, aspectRatio,
                    template, isProcessing, nextFile, uploads, captures, exports, posters, reportedFor >>

\* a commit that puts every other item back into editing
CommitCropClearsOthers(prev, index, croppedImg, area) ==
    [n \in 1..Len(prev) |->
        IF n - 1 = index
        THEN [prev[n] EXCEPT !.croppedImage = croppedImg, !.croppedAreaPixels = area]
        ELSE [prev[n] EXCEPT !.croppedImage = Null]]

\* lines 159-165: prev.map over the list as it is now, with the index and the
\* rectangle the handler saw when it was called
CommitCrop(prev, index, croppedImg, area) ==
    [n \in 1..Len(prev) |->
        IF n - 1 = index
        THEN [prev[n] EXCEPT !.croppedImage = croppedImg, !.croppedAreaPixels = area]
        ELSE prev[n]]

\* a catch block that drops the image whose crop failed
CatchCropDrops(prev, index) ==
    LET kept == {n \in 1..Len(prev) : n - 1 # index}
        Nth(j) == CHOOSE n \in kept : Cardinality({m \in kept : m < n}) = j - 1
    IN  [j \in 1..Cardinality(kept) |-> prev[Nth(j)]]

\* a catch block that falls back to the uncropped source as the croppedImage
CatchCropFallsBack(prev, index) ==
    [n \in 1..Len(prev) |->
        IF n - 1 = index THEN [prev[n] EXCEPT !.croppedImage = prev[n].src] ELSE prev[n]]

\* the catch block, lines 166-168: console.error(e) and nothing else
CatchCrop(prev, index) == prev

\* getCroppedImg resolves: the rest of the try block runs
CropResolved(k) ==
    /\ crops[k].state = "awaiting"
    /\ getCroppedImgCanResolve(crops[k].src, crops[k].rect)
    /\ LET result == getCroppedImg(crops[k].src, crops[k].rect, TRUE)
       IN  /\ images' = CommitCrop(images, crops[k].index, result.value, crops[k].rect)
           /\ crops' = [crops EXCEPT ![k].state = "committed", ![k].result = result]
    /\ UNCHANGED << currentImageIndex, croppedAreaPixels, aspectRatio, template,
                    isProcessing, nextFile, uploads, captures, exports, posters, reportedFor >>

\* getCroppedImg rejects (the rectangle is null, or the source does not decode)
CropRejected(k) ==
    /\ crops[k].state = "awaiting"
    /\ \E decodes \in BOOLEAN :
          LET result == getCroppedImg(crops[k].src, crops[k].rect, decodes)
          IN  /\ result.outcome = "rejected"
              /\ crops' = [crops EXCEPT ![k].state = "caught", ![k].result = result]
    /\ images' = CatchCrop(images, crops[k].index)
    /\ UNCHANGED << currentImageIndex, croppedAreaPixels, aspectRatio, template,
                    isProcessing, nextFile, uploads, captures, exports, posters, reportedFor >>


(***************************************************************************)
(* handleDownloadSingle (lines 196-210).  The button is rendered for the   *)
(* images that have a croppedImage (lines 385-411).                        *)
(***************************************************************************)
\* images.find((img) => img.id === imageId)
Find(imgs, imageId) ==
    LET Is(img) == img.id = imageId
    IN  SelectSeq(imgs, Is)

\* the link the handler clicks: its download name and its href
Link(name, dataUrl) == [download |-> name, href |-> dataUrl]

\* the first argument handleDownloadSingle hands to createHighQualityPoster
SingleArgument(image) == image.croppedImage

handleDownloadSingle(e, c, imageId, ctxOk) ==
    /\ Ended(exports[e])
    /\ posters[c] = NoCall
    /\ \E n \in 1..Len(images) : images[n].id = imageId /\ images[n].croppedImage # Null
    /\ LET found == Find(images, imageId)
       IN  /\ ~(found = << >> \/ found[1].croppedImage = Null)
           /\ posters' = [posters EXCEPT ![c] =
                 createHighQualityPoster(SingleArgument(found[1]), template,
                                         aspectRatio, ctxOk)]
    /\ exports' = [exports EXCEPT ![e] =
          [IdleExport EXCEPT !.handler = "handleDownloadSingle", !.state = "awaiting",
                             !.imageId = imageId, !.call = c]]
    /\ UNCHANGED << images, currentImageIndex, croppedAreaPixels, aspectRatio,
                    template, isProcessing, nextFile, uploads, captures, crops, reportedFor >>

\* the file name of a single export: `poster-${imageId}.png`
SingleName(imageId) == <<"poster", "id", imageId>>

\* what follows the await once the promise of the call settles
\* (lines 206-209); a rejection is caught nowhere and leaves the handler
SingleAfter(r, call) ==
    IF call.promise = "resolved"
    THEN [r EXCEPT !.state = "done",
                   !.downloads = Append(@, Link(SingleName(r.imageId), call.value))]
    ELSE IF call.promise = "rejected"
    THEN [r EXCEPT !.state = "unhandled"]
    ELSE r

(***************************************************************************)
(* handleDownloadAll (lines 171-194).  The button is rendered while some   *)
(* image has a croppedImage and is disabled while isProcessing             *)
(* (lines 382, 415-418).                                                   *)
(***************************************************************************)
\* images.filter((img) => img.croppedImage)
HasCropped(img) == img.croppedImage # Null

\* the loop run over every image, cropped or not
CompletedImagesUnfiltered(imgs) == imgs

CompletedImages(imgs) == SelectSeq(imgs, HasCropped)

\* the first argument handleDownloadAll hands to createHighQualityPoster
BatchArgument(image) == image.croppedImage

\* the call of the loop's iteration i (0-based), lines 178-183
BatchCall(r, i, ctxOk) ==
    createHighQualityPoster(BatchArgument(At(r.completedImages, i)), r.template,
                            r.aspectRatio, ctxOk)

handleDownloadAll(e, c, ctxOk) ==
    /\ Ended(exports[e])
    /\ posters[c] = NoCall
    /\ \E n \in 1..Len(images) : images[n].croppedImage # Null
    /\ ~isProcessing
    /\ LET completedImages == CompletedImages(images)
           r == [IdleExport EXCEPT !.handler = "handleDownloadAll",
                                   !.completedImages = completedImages,
                                   !.template = template,
                                   !.aspectRatio = aspectRatio,
                                   !.state = "composing",
                                   !.call = c]
       IN  /\ Len(completedImages) # 0
           /\ isProcessing' = TRUE
           /\ exports' = [exports EXCEPT ![e] = r]
           /\ posters' = [posters EXCEPT ![c] = BatchCall(r, 0, ctxOk)]
    /\ UNCHANGED << images, currentImageIndex, croppedAreaPixels, aspectRatio,
                    template, nextFile, uploads, captures, crops, reportedFor >>

\* a file name numbered from 0: `poster-${i}.png`
BatchNameFromZero(i) == <<"poster", "n", i>>

\* the file name of the loop's iteration i: `poster-${i + 1}.png`
BatchName(i) == <<"poster", "n", i + 1>>

\* what follows the await of createHighQualityPoster once the promise
\* settles: the link is clicked and the 500 ms timer is set (lines 185-190);
\* a rejection is caught nowhere and leaves the handler
BatchAfter(r, call) ==
    IF call.promise = "resolved"
    THEN [r EXCEPT !.state = "sleeping",
                   !.downloads = Append(@, Link(BatchName(r.i), call.value))]
    ELSE IF call.promise = "rejected"
    THEN [r EXCEPT !.state = "unhandled"]
    ELSE r

\* the 500 ms timer fires: i++, then the next iteration's call, or the end
\* of the loop and setIsProcessing(false) (lines 177, 193)
BatchTimer(e, ctxOk) ==
    /\ exports[e].state = "sleeping"
    /\ LET r == exports[e]
           i == r.i + 1
       IN  IF i < Len(r.completedImages)
           THEN /\ \E c \in FreeCall :
                     /\ exports' = [exports EXCEPT ![e] =
                           [r EXCEPT !.i = i, !.state = "composing", !.call = c]]
                     /\ posters' = [posters EXCEPT ![c] = BatchCall(r, i, ctxOk)]
                /\ UNCHANGED isProcessing
           ELSE /\ exports' = [exports EXCEPT ![e] = [r EXCEPT !.i = i, !.state = "done"]]
                /\ isProcessing' = FALSE
                /\ UNCHANGED posters
    /\ UNCHANGED << images, currentImageIndex, croppedAreaPixels, aspectRatio,
                    template, nextFile, uploads, captures, crops, reportedFor >>

(***************************************************************************)
(* The load and error events of the images of a createHighQualityPoster    *)
(* call, each followed by the continuation of the handler that awaits the  *)
(* call.                                                                   *)
(***************************************************************************)
Imgs == {"croppedImage", "templateImage"}

\* the handler suspended on the call resumes
After(r, call) ==
    IF r.handler = "handleDownloadSingle" THEN SingleAfter(r, call) ELSE BatchAfter(r, call)

Awaits(r, c) == r.state \in {"awaiting", "composing"} /\ r.call = c

Resume(c, call) ==
    exports' = [e \in ExportIds |->
                  IF Awaits(exports[e], c) THEN After(exports[e], call) ELSE exports[e]]

\* a call whose two images have both fired their event is garbage
Release(call) == IF Loading(call) THEN call ELSE NoCall

ImageLoad(c, img) ==
    /\ posters[c][img] = "loading"
    /\ LET call == ImageLoaded(posters[c], img)
       IN  /\ posters' = [posters EXCEPT ![c] = Release(call)]
           /\ Resume(c, call)
    /\ UNCHANGED << images, currentImageIndex, croppedAreaPixels, aspectRatio,
                    template, isProcessing, nextFile, uploads, captures, crops, reportedFor >>

ImageError(c, img) ==
    /\ posters[c][img] = "loading"
    /\ LET call == ImageFailed(posters[c], img)
       IN  /\ posters' = [posters EXCEPT ![c] = Release(call)]
           /\ Resume(c, call)
    /\ UNCHANGED << images, currentImageIndex, croppedAreaPixels, aspectRatio,
                    template, isProcessing, nextFile, uploads, captures, crops, reportedFor >>

(***************************************************************************)
(* The specification of the application: every handler of App.  A canvas   *)
(* that was just created hands out its 2d context, so the handlers' calls  *)
(* run with ctx available; SpecPoster covers the calls without one.        *)
(***************************************************************************)
Next ==
    \/ SelectLandscape
    \/ SelectPortrait
    \/ \E index \in 0..(MaxAppIds - 1) : SelectImage(index)
    \/ \E area \in AppRects : onCropComplete(area)
    \/ \E u \in FirstFree(uploads, UploadIds), n \in 0..MaxFiles :
          nextFile + n <= MaxAppIds + 1 /\ handleUpload(u, n)
    \/ \E u \in UploadIds, f \in 1..MaxAppIds : UploadReaderLoad(u, f)
    \/ \E u \in UploadIds, f \in 1..MaxAppIds : UploadReaderError(u, f)
    \/ \E k \in FirstFree(captures, CaptureIds) :
          nextFile <= MaxAppIds /\ handleCameraCapture(k)
    \/ \E k \in CaptureIds : CaptureReaderLoad(k)
    \/ \E k \in CaptureIds : CaptureReaderError(k)
    \/ \E imageId \in 1..MaxAppIds : removeImage(imageId)
    \/ \E k \in FirstFree(crops, CropIds) : handleCrop(k)
    \/ \E k \in CropIds : CropResolved(k)
    \/ \E k \in CropIds : CropRejected(k)
    \/ \E e \in FirstFree(exports, ExportIds), c \in FreeCall, imageId \in 1..MaxAppIds :
          handleDownloadSingle(e, c, imageId, TRUE)
    \/ \E e \in FirstFree(exports, ExportIds), c \in FreeCall :
          handleDownloadAll(e, c, TRUE)
    \/ \E e \in ExportIds : BatchTimer(e, TRUE)
    \/ \E c \in CallIds, img \in Imgs : ImageLoad(c, img)
    \/ \E c \in CallIds, img \in Imgs : ImageError(c, img)

Spec == Init /\ [][Next]_vars

(***************************************************************************)
(* The application under the scheduling of the browser: every file read    *)
(* that was started ends with a load or an error event, every image that   *)
(* was given a src fires its load or its error event, getCroppedImg        *)
(* settles, and a timer that was set fires.  Nothing is assumed of the     *)
(* user, who may stop clicking at any time.                                *)
(***************************************************************************)
Fairness ==
    /\ \A u \in UploadIds, f \in 1..MaxAppIds :
          WF_vars(UploadReaderLoad(u, f) \/ UploadReaderError(u, f))
    /\ \A k \in CaptureIds : WF_vars(CaptureReaderLoad(k) \/ CaptureReaderError(k))
    /\ \A k \in CropIds : WF_vars(CropResolved(k) \/ CropRejected(k))
    /\ \A c \in CallIds, img \in Imgs : WF_vars(ImageLoad(c, img) \/ ImageError(c, img))
    /\ \A e \in ExportIds : WF_vars(BatchTimer(e, TRUE))

SpecFair == Spec /\ Fairness

(***************************************************************************)
(* The specification of the working set: the handlers that read or write   *)
(* images, currentImageIndex and croppedAreaPixels.  The export handlers   *)
(* write none of these variables and none of uploads, captures and crops,  *)
(* and the handlers below read nothing the export handlers write, so the   *)
(* working set of the application evolves as it does here.                 *)
(***************************************************************************)
NextWorkingSet ==
    \/ SelectLandscape
    \/ SelectPortrait
    \/ \E index \in 0..(MaxIds - 1) : SelectImage(index)
    \/ \E area \in Rects : onCropComplete(area)
    \/ \E u \in FirstFree(uploads, UploadIds), n \in 0..MaxFiles :
          nextFile + n <= MaxIds + 1 /\ handleUpload(u, n)
    \/ \E u \in UploadIds, f \in 1..MaxIds : UploadReaderLoad(u, f)
    \/ \E u \in UploadIds, f \in 1..MaxIds : UploadReaderError(u, f)
    \/ \E k \in FirstFree(captures, CaptureIds) :
          nextFile <= MaxIds /\ handleCameraCapture(k)
    \/ \E k \in CaptureIds : CaptureReaderLoad(k)
    \/ \E k \in CaptureIds : CaptureReaderError(k)
    \/ \E imageId \in 1..MaxIds : removeImage(imageId)
    \/ \E k \in FirstFree(crops, CropIds) : handleCrop(k)
    \/ \E k \in CropIds : CropResolved(k)
    \/ \E k \in CropIds : CropRejected(k)

SpecWorkingSet == Init /\ [][NextWorkingSet]_vars

(***************************************************************************)
(* The specification of createHighQualityPoster alone: calls with their    *)
(* arguments drawn from the sets below, with and without a 2d context,     *)
(* whose images decode or fail in any order.  A settled call is kept until *)
(* its slot is taken by a new call.  Two calls run side by side, so that   *)
(* the outcomes of two calls can be compared; calls share no state.        *)
(***************************************************************************)
PosterCalls == {1, 2}

CroppedInputs == { CroppedImg(DataUrl(1), r) : r \in Rects }
TemplateInputs == { template4, template3 }

Compose(c, croppedImageSrc, templateSrc, ratio, ctxOk) ==
    /\ ~Loading(posters[c])
    /\ posters' = [posters EXCEPT ![c] =
                     createHighQualityPoster(croppedImageSrc, templateSrc, ratio, ctxOk)]
    /\ UNCHANGED << images, currentImageIndex, croppedAreaPixels, aspectRatio, template,
                    isProcessing, nextFile, uploads, captures, crops, exports, reportedFor >>

Decoded(c, img) ==
    /\ posters[c][img] = "loading"
    /\ posters' = [posters EXCEPT ![c] = ImageLoaded(@, img)]
    /\ UNCHANGED << images, currentImageIndex, croppedAreaPixels, aspectRatio, template,
                    isProcessing, nextFile, uploads, captures, crops, exports, reportedFor >>

DecodeFailed(c, img) ==
    /\ posters[c][img] = "loading"
    /\ posters' = [posters EXCEPT ![c] = ImageFailed(@, img)]
    /\ UNCHANGED << images, currentImageIndex, croppedAreaPixels, aspectRatio, template,
                    isProcessing, nextFile, uploads, captures, crops, exports, reportedFor >>

NextPoster ==
    \/ \E c \in PosterCalls, croppedImageSrc \in CroppedInputs, templateSrc \in TemplateInputs,
          ratio \in Ratios, ctxOk \in BOOLEAN :
          Compose(c, croppedImageSrc, templateSrc, ratio, ctxOk)
    \/ \E c \in PosterCalls, img \in Imgs : Decoded(c, img)
    \/ \E c \in PosterCalls, img \in Imgs : DecodeFailed(c, img)

SpecPoster == Init /\ [][NextPoster]_vars

(***************************************************************************)
(* The specification of getCroppedImg: direct calls with the rectangle     *)
(* drawn from the set below (null, inside the source, and outside it in    *)
(* every way), and the calls handleCrop makes for an uploaded image with   *)
(* the rectangle the cropper has reported, or with none.                   *)
(***************************************************************************)
CropCalls == {1}

CropInputs ==
    {Null} \cup [x : {-1, 0, 2}, y : {-1, 0, 2}, width : {0, 3, 4}, height : {-1, 3, 5}]

\* a call of getCroppedImg outside handleCrop: its result goes to no item
Extract(k, imageSrc, pixelCrop) ==
    /\ Ended(crops[k])
    /\ crops' = [crops EXCEPT ![k] =
                   [state |-> "awaiting", index |-> -1, src |-> imageSrc,
                    rect |-> pixelCrop, result |-> Null]]
    /\ UNCHANGED << images, currentImageIndex, croppedAreaPixels, aspectRatio,
                    template, isProcessing, nextFile, uploads, captures, exports, posters, reportedFor >>

NextCrop ==
    \/ \E k \in CropCalls, n \in 1..2, pixelCrop \in CropInputs :
          Extract(k, DataUrl(n), pixelCrop)
    \/ \E u \in FirstFree(uploads, UploadIds) : nextFile = 1 /\ handleUpload(u, 1)
    \/ \E u \in UploadIds : UploadReaderLoad(u, 1)
    \/ \E area \in Rects : onCropComplete(area)
    \/ \E k \in CropCalls : handleCrop(k)
    \/ \E k \in CropCalls : CropResolved(k)
    \/ \E k \in CropCalls : CropRejected(k)

SpecCrop == Init /\ [][NextCrop]_vars

\* the calls that have been made
Calls == {c \in CallIds : posters[c].promise # "none"}

(***************************************************************************)
(* Claims about createHighQualityPoster, checked under SpecPoster.         *)
(***************************************************************************)
\* C1: no drawImage call is made while only one of the two images has
\* finished decoding: a call that has drawn anything has seen both load
\* events, and every image it drew was fully decoded when it was drawn.
C1_JoinBeforeDraw ==
    \A c \in Calls :
        posters[c].draws # << >> =>
            /\ posters[c].croppedImage = "loaded"
            /\ posters[c].templateImage = "loaded"
            /\ Len(posters[c].events) = 2
            /\ \A i \in 1..Len(posters[c].draws) : posters[c].draws[i].complete

\* a call that has drawn, whose template finished decoding before the cropped image
C1_Witness ==
    \E c \in Calls :
        /\ posters[c].draws # << >>
        /\ posters[c].events[1].image = "templateImage"

\* C2: the cropped image is drawn strictly before the template, whichever
\* decodes first: the draws of a call are none, or the cropped image and
\* then the template.
C2_CroppedThenTemplate ==
    \A c \in Calls :
        \/ posters[c].draws = << >>
        \/ /\ Len(posters[c].draws) = 2
           /\ posters[c].draws[1].image = "croppedImage"
           /\ posters[c].draws[1].src = posters[c].croppedImageSrc
           /\ posters[c].draws[2].image = "templateImage"
           /\ posters[c].draws[2].src = posters[c].templateSrc

\* two calls that have drawn, one whose cropped image loaded first and one
\* whose template loaded first
C2_Witness ==
    \E c, d \in Calls :
        /\ Len(posters[c].draws) = 2
        /\ Len(posters[d].draws) = 2
        /\ posters[c].events[1].image = "croppedImage"
        /\ posters[d].events[1].image = "templateImage"

\* C3: if either image fails to decode the promise is rejected and nothing
\* is drawn or handed out, whatever the other image does.
C3_DecodeFailureRejects ==
    \A c \in Calls :
        (posters[c].croppedImage = "error" \/ posters[c].templateImage = "error") =>
            /\ posters[c].promise = "rejected"
            /\ posters[c].draws = << >>
            /\ posters[c].value = Null

\* a call whose template failed and whose cropped image loaded after the failure
C3_Witness ==
    \E c \in Calls :
        /\ posters[c].templateImage = "error"
        /\ posters[c].croppedImage = "loaded"
        /\ posters[c].events[1].image = "templateImage"
        /\ posters[c].ctx

\* C4: the output surface is 1200x1600 for Portrait and 1600x1200 for
\* Landscape, for the canvas and for the data URL handed out, whatever the
\* dimensions of the images.
C4_OutputDimensions ==
    \A c \in Calls :
        LET size == IF posters[c].promise = "resolved"
                    THEN [width |-> posters[c].value.width, height |-> posters[c].value.height]
                    ELSE posters[c].canvas
        IN  /\ posters[c].canvas = size
            /\ posters[c].aspectRatio = Portrait => size = [width |-> 1200, height |-> 1600]
            /\ posters[c].aspectRatio = Landscape => size = [width |-> 1600, height |-> 1200]

\* a Portrait poster handed out for a cropped image that is wider than high
C4_Witness ==
    \E c \in Calls :
        /\ posters[c].promise = "resolved"
        /\ posters[c].aspectRatio = Portrait
        /\ posters[c].croppedImageSrc.rect.width > posters[c].croppedImageSrc.rect.height

\* C5: two calls with the same cropped image, template and aspect mode that
\* both hand out a poster hand out the same poster, also when their images
\* decoded in different orders.
C5_SameInputsSameOutput ==
    \A c, d \in Calls :
        /\ posters[c].promise = "resolved"
        /\ posters[d].promise = "resolved"
        /\ posters[c].croppedImageSrc = posters[d].croppedImageSrc
        /\ posters[c].templateSrc = posters[d].templateSrc
        /\ posters[c].aspectRatio = posters[d].aspectRatio
        => posters[c].value = posters[d].value

\* two such calls, the cropped image first in one and the template first in the other
C5_Witness ==
    \E c, d \in Calls :
        /\ posters[c].promise = "resolved"
        /\ posters[d].promise = "resolved"
        /\ posters[c].croppedImageSrc = posters[d].croppedImageSrc
        /\ posters[c].templateSrc = posters[d].templateSrc
        /\ posters[c].aspectRatio = posters[d].aspectRatio
        /\ posters[c].events[1].image = "croppedImage"
        /\ posters[d].events[1].image = "templateImage"

(***************************************************************************)
(* Claims about the export handlers, checked under Spec.                   *)
(***************************************************************************)
\* the batch exports that have started
BatchExports == {e \in ExportIds : exports[e].handler = "handleDownloadAll"}

\* the source images read so far
SourceImages == {DataUrl(n) : n \in 1..MaxIds}

\* C6: createHighQualityPoster is called only with a non-null croppedImage:
\* the first argument of every call in flight is not null and is no source
\* image, and a batch export runs over images that all have a croppedImage,
\* its call being made with the croppedImage of the image it has reached.
C6_ComposeOnlyCropped ==
    /\ \A c \in Calls :
          /\ posters[c].croppedImageSrc # Null
          /\ posters[c].croppedImageSrc \notin SourceImages
    /\ \A e \in BatchExports :
          /\ \A n \in 1..Len(exports[e].completedImages) :
                exports[e].completedImages[n].croppedImage # Null
          /\ exports[e].state = "composing" =>
                posters[exports[e].call].croppedImageSrc =
                   At(exports[e].completedImages, exports[e].i).croppedImage

\* a batch export suspended on a call while the list holds an image that is not cropped
C6_Witness ==
    \E e \in BatchExports :
        /\ exports[e].state = "composing"
        /\ posters[exports[e].call].promise = "pending"
        /\ \E n \in 1..Len(images) : images[n].croppedImage = Null

\* the poster of one image under the template and aspect mode of a batch
PosterOf(image, r) ==
    [ width  |-> CanvasSize(r.aspectRatio).width,
      height |-> CanvasSize(r.aspectRatio).height,
      layers |-> << image.croppedImage, r.template >> ]

\* the downloads a batch has triggered are those of its first k images, in
\* order, named poster-1.png .. poster-k.png
FirstDownloads(r, k) ==
    /\ Len(r.downloads) = k
    /\ k <= Len(r.completedImages)
    /\ \A n \in 1..Len(r.downloads) :
          r.downloads[n] = Link(<<"poster", "n", n>>, PosterOf(r.completedImages[n], r))

\* C7 as stated: a batch export over N images that has ended has triggered
\* exactly N downloads, poster-1.png .. poster-N.png.
C7_ExactlyNDownloads ==
    \A e \in BatchExports :
        exports[e].state \in {"done", "unhandled"} =>
            FirstDownloads(exports[e], Len(exports[e].completedImages))

\* C7 as amended: a batch export over N images triggers its downloads
\* strictly in sequence, poster-i.png for the i-th image of the list: while
\* image i+1 is composed exactly the first i downloads have been triggered,
\* after its poster is handed over exactly i+1, and a batch that runs to its
\* end has triggered exactly N; a composition that fails ends the batch
\* with the downloads of the images before it and no other.
C7_SequentialDownloads ==
    \A e \in BatchExports :
        LET r == exports[e]
            N == Len(r.completedImages)
        IN  /\ N >= 1
            /\ r.state = "composing" =>
                  /\ r.i < N
                  /\ FirstDownloads(r, r.i)
                  /\ posters[r.call].croppedImageSrc = At(r.completedImages, r.i).croppedImage
            /\ r.state = "sleeping" => r.i < N /\ FirstDownloads(r, r.i + 1)
            /\ r.state = "done" => r.i = N /\ FirstDownloads(r, N)
            /\ r.state = "unhandled" => r.i < N /\ FirstDownloads(r, r.i)

\* a batch over two images that has run to its end
C7_Witness ==
    \E e \in BatchExports :
        /\ exports[e].state = "done"
        /\ Len(exports[e].completedImages) = 2
        /\ Len(exports[e].downloads) = 2

\* C8: a rejection of createHighQualityPoster or getCroppedImg is caught by
\* the handler that awaits it: no handler ends with an unhandled rejection.
C8_FailuresCaught ==
    /\ \A e \in ExportIds : exports[e].state # "unhandled"
    /\ \A k \in CropIds : crops[k].state # "unhandled"

(***************************************************************************)
(* Claims about the working set, checked under SpecWorkingSet.             *)
(***************************************************************************)
\* C9: when getCroppedImg rejects in handleCrop, the images list and the
\* active-item pointer are left as they are.
C9_FailedCropChangesNothing ==
    [][ \A k \in CropIds :
          (crops[k].state = "awaiting" /\ crops'[k].state = "caught") =>
              /\ images' = images
              /\ currentImageIndex' = currentImageIndex ]_vars

\* a crop has failed and the image it was asked for is still being edited
C9_Witness ==
    \E k \in CropIds :
        /\ crops[k].state = "caught"
        /\ HasCurrentImage
        /\ currentImage.src = crops[k].src
        /\ currentImage.croppedImage = Null

\* C10: currentImageIndex is -1 or the index of an image of the list.
C10_PointerInRange ==
    currentImageIndex = -1 \/ (0 <= currentImageIndex /\ currentImageIndex < Len(images))

\* C11: selecting an item of the grid is possible for every item of the list
\* in every state, and the step changes currentImageIndex and nothing of
\* the list: its length, its order, and every item's src and croppedImage
\* stay as they are.
C11_SelectChangesOnlyPointer ==
    /\ [](\A index \in 0..(MaxIds - 1) :
            InRange(index, images) => ENABLED SelectImage(index))
    /\ [][ \A index \in 0..(MaxIds - 1) :
            SelectImage(index) =>
                /\ currentImageIndex' = index
                /\ Len(images') = Len(images)
                /\ \A n \in 1..Len(images) :
                      /\ images'[n].id = images[n].id
                      /\ images'[n].src = images[n].src
                      /\ images'[n].croppedImage = images[n].croppedImage ]_vars

\* handleCrop was called for the second of two items and is still suspended,
\* and the first item has been selected since: both files are in the list
\* and no read is in flight, so only a click on the grid moved the pointer
C11_Witness ==
    \E k \in CropIds :
        /\ crops[k].state = "awaiting"
        /\ crops[k].index = 1
        /\ currentImageIndex = 0
        /\ Len(images) = 2
        /\ nextFile = 3
        /\ \A u \in UploadIds : uploads[u].state = "idle"
        /\ \A c \in CaptureIds : captures[c].state = "idle"

\* the item of a list that has the id, as a set (empty when it is not there)
ItemsWithId(imgs, id) == {imgs[n] : n \in {m \in 1..Len(imgs) : imgs[m].id = id}}

\* C12: commit is one-way.  In every step, an item that has a croppedImage
\* and is still in the list afterwards still has a croppedImage, and an item
\* that has a croppedImage leaves the list in a removeImage step for its id
\* only.
C12_CommitIsOneWay ==
    [][ \A id \in 1..MaxIds :
          \A item \in ItemsWithId(images, id) :
              item.croppedImage # Null =>
                  /\ \A after \in ItemsWithId(images', id) : after.croppedImage # Null
                  /\ ItemsWithId(images', id) = {} => removeImage(id) ]_vars

\* the second file's item is committed and is now the only item: the first
\* item has been removed, and a later crop has failed, since the commit
C12_Witness ==
    /\ Len(images) = 1
    /\ images[1].id = 2
    /\ images[1].croppedImage # Null
    /\ \E k \in CropIds : crops[k].state = "caught"

\* C15: every croppedImage stored in an item was derived by getCroppedImg
\* from that item's own src.
C15_CroppedFromOwnSource ==
    \A n \in 1..Len(images) :
        images[n].croppedImage # Null =>
            images[n].croppedImage.croppedFrom = images[n].src

\* C16: the rectangle handleCrop passes to getCroppedImg is the rectangle
\* onCropComplete reported last, and that rectangle was reported while the
\* image that is active now was the one shown, never while another was.
C16_RectangleOfActiveItem ==
    [][ \A k \in CropIds :
          handleCrop(k) =>
              /\ crops'[k].rect = croppedAreaPixels
              /\ croppedAreaPixels # Null => reportedFor = currentImage.id ]_vars

\* C19: removeImage of an item other than the active one leaves the active
\* item as it is: the pointer designates the item with the same id after
\* the removal as before it.
C19_RemoveOtherKeepsActive ==
    [][ \A id \in 1..MaxIds :
          (removeImage(id) /\ HasCurrentImage /\ currentImage.id # id) =>
              /\ InRange(currentImageIndex', images')
              /\ At(images', currentImageIndex').id = currentImage.id ]_vars

(***************************************************************************)
(* Claims about the processing flag, checked under Spec.                   *)
(***************************************************************************)
\* a handleCrop call is suspended on getCroppedImg
CropInFlight == \E k \in CropIds : crops[k].state = "awaiting"

\* an export handler is suspended on createHighQualityPoster
CompositionInFlight == \E e \in ExportIds : exports[e].state \in {"awaiting", "composing"}

\* C13: isProcessing is true in every state in which a crop extraction or a
\* poster composition (of a single or of a batch export) is in flight.
C13_ProcessingWhileInFlight ==
    (CropInFlight \/ CompositionInFlight) => isProcessing

(***************************************************************************)
(* Claims about getCroppedImg, checked under SpecCrop.                     *)
(***************************************************************************)
\* the getCroppedImg calls that have settled
SettledCrops == {k \in CropIds : crops[k].state \in {"committed", "caught"}}

\* the handles getCroppedImg makes from a rectangle inside the source
ValidCroppedImages ==
    UNION { { CroppedImg(DataUrl(n), r) :
                r \in { q \in (CropInputs \cup Rects) \ {Null} :
                          /\ q.x >= 0 /\ q.y >= 0 /\ q.width >= 1 /\ q.height >= 1
                          /\ q.x + q.width <= SourceSize(DataUrl(n)).width
                          /\ q.y + q.height <= SourceSize(DataUrl(n)).height } } :
            n \in 1..MaxIds }

BatchRunning == \E e \in BatchExports : exports[e].state \in {"composing", "sleeping"}

\* the Download All button can be clicked: it is rendered while some image
\* has a croppedImage, and is disabled while isProcessing
DownloadAllEnabled ==
    /\ \E n \in 1..Len(images) : images[n].croppedImage # Null
    /\ ~isProcessing

\* C18: while a handleDownloadAll loop is running, isProcessing is true and
\* the Download All button cannot be clicked, so no second loop can start.
C18_OneBatchAtATime ==
    BatchRunning => (isProcessing /\ ~DownloadAllEnabled)

\* C20: whenever isProcessing is true it eventually becomes false again,
\* given that every read, decode and timer that was started completes.
C20_ProcessingEventuallyCleared ==
    isProcessing ~> ~isProcessing

(***************************************************************************)
(* Claims about the aspect mode, checked under Spec.                       *)
(***************************************************************************)
\* the template bound to an aspect mode
Matching(ratio, templateSrc) ==
    \/ ratio = Landscape /\ templateSrc = template4
    \/ ratio = Portrait /\ templateSrc = template3

\* C17: aspectRatio and template are a matching pair in every state, and so
\* are the aspect mode and the template of every createHighQualityPoster
\* call and of every batch export, which keeps the pair it started with.
C17_AspectAndTemplateMatch ==
    /\ Matching(aspectRatio, template)
    /\ \A c \in Calls : Matching(posters[c].aspectRatio, posters[c].templateSrc)
    /\ \A e \in BatchExports : Matching(exports[e].aspectRatio, exports[e].template)

\* a Portrait call is in flight and the mode has been switched back to Landscape
C17_Witness ==
    \E c \in Calls :
        /\ posters[c].promise = "pending"
        /\ posters[c].aspectRatio = Portrait
        /\ posters[c].templateSrc = template3
        /\ aspectRatio = Landscape
        /\ template = template4

=============================================================================
